---- MODULE Spec2Model ----
(***************************************************************************)
(* Model of app.py, the "2030 Global Strategy Architect" dashboard: the    *)
(* tiered market-data resolver get_safe_data with its FX lookup            *)
(* get_fx_rate, the two st.cache_data caches, the session state            *)
(* (symbols, targets, weights) driven by the sidebar widgets, and the      *)
(* projection (calc_metrics) with its ranking.                             *)
(*                                                                         *)
(* Numbers are integers: a market cap is given in billions, so the code's  *)
(* mc / 1_000_000_000 is the identity on the model's values; the rate 1.0  *)
(* is 1.  A value the provider may fail to give is a tagged record: a      *)
(* number, None, a raised exception, or an absent dictionary key.          *)
(* A ticker is the sequence of its characters.                             *)
(***************************************************************************)
EXTENDS Integers, Sequences, FiniteSets, TLC

VARIABLES
    symbols,        \* st.session_state.symbols
    targets,        \* st.session_state.targets : display symbol -> target MC
    weights,        \* st.session_state.weights : display symbol -> weight %
    usd_toggle,     \* the "Convert to USD" toggle
    event,          \* the widget interaction this script run answers
    pc,             \* position of the script run
    dataCache,      \* st.cache_data of get_safe_data : <<list, flag>> -> quotes
    fxCache,        \* st.cache_data of get_fx_rate : currency -> rate
    symbol_list,    \* get_safe_data: argument
    convert_to_usd, \* get_safe_data: argument
    i,              \* get_safe_data: index of the loop over symbol_list
    results,        \* get_safe_data: the list being built
    fxEnv,          \* what the provider answers for <CCY>USD=X during this call
    call_cache,     \* fxCache as it was when get_safe_data was entered
    last,           \* trace of the latest loop iteration
    own,            \* per symbol, what get_safe_data([s], flag) returns
    requests,       \* provider requests issued by the current script run
    df_raw,         \* the script's df_raw
    df_metrics,     \* df_raw with the calc_metrics columns
    df_final,       \* df_metrics after sort_values
    raw,            \* normalizer: the string entered
    norm1,          \* normalizer: display symbol of raw
    norm2           \* normalizer: display symbol of norm1

vars == <<symbols, targets, weights, usd_toggle, event, pc, dataCache, fxCache,
          symbol_list, convert_to_usd, i, results, fxEnv, call_cache, last, own,
          requests, df_raw, df_metrics, df_final, raw, norm1, norm2>>

----------------------------------------------------------------------------
(* Values *)

Num(n) == [k |-> "num", v |-> n]
NoneV == [k |-> "None", v |-> 0]
Raise == [k |-> "raise", v |-> 0]
AbsentV == [k |-> "absent", v |-> 0]
NaN == [k |-> "NaN", v |-> 0]

EmptyMap == [z \in {} |-> 0]

----------------------------------------------------------------------------
(* Symbol normalization: s.replace('.T', '').split('-')[0] *)

\* str.replace('.T', '', 1): the first occurrence only
ReplaceDotTOnce(s) ==
    IF \E p \in 1..(Len(s) - 1) : s[p] = "." /\ s[p + 1] = "T"
    THEN LET p == CHOOSE q \in 1..(Len(s) - 1) :
                      /\ s[q] = "." /\ s[q + 1] = "T"
                      /\ \A r \in 1..(q - 1) : ~(s[r] = "." /\ s[r + 1] = "T")
         IN  SubSeq(s, 1, p - 1) \o SubSeq(s, p + 2, Len(s))
    ELSE s

\* str.replace('.T', ''): every non-overlapping occurrence, scanning left to right
RECURSIVE ReplaceDotT(_)
ReplaceDotT(s) ==
    IF Len(s) < 2 THEN s
    ELSE IF s[1] = "." /\ s[2] = "T" THEN ReplaceDotT(SubSeq(s, 3, Len(s)))
    ELSE <<s[1]>> \o ReplaceDotT(Tail(s))

\* str.split('-')[0]: the part before the first '-'
RECURSIVE SplitDashFirst(_)
SplitDashFirst(s) ==
    IF s = <<>> THEN <<>>
    ELSE IF s[1] = "-" THEN <<>>
    ELSE <<s[1]>> \o SplitDashFirst(Tail(s))

Normalize(s) == SplitDashFirst(ReplaceDotT(s))

\* str.upper() on the characters the model enters
UpperChar(c) ==
    CASE c = "a" -> "A"
      [] c = "t" -> "T"
      [] c = "b" -> "B"
      [] OTHER -> c

Upper(s) == [p \in 1..Len(s) |-> UpperChar(s[p])]

----------------------------------------------------------------------------
(* The provider *)

BTC_USD == <<"B", "T", "C", "-", "U", "S", "D">>
T3350 == <<"3", "3", "5", "0", ".", "T">>
Tickers == {BTC_USD, T3350}

FxCurrencies == {"JPY"}

FastPrices == {Raise, NoneV, Num(0), Num(2)}
FastCaps == {Raise, NoneV, Num(4)}
HistCloses == {Raise, Num(0), Num(3)}
InfoRaises == [raises |-> TRUE, currency |-> "absent", marketCap |-> AbsentV,
               previousClose |-> AbsentV]
InfoEmpty == [raises |-> FALSE, currency |-> "absent", marketCap |-> AbsentV,
              previousClose |-> AbsentV]
InfoFull == [raises |-> FALSE, currency |-> "JPY", marketCap |-> Num(5),
             previousClose |-> Num(6)]
Infos == {InfoRaises, InfoEmpty, InfoFull}

\* what the provider answers for one ticker: fast_info, history, info
Responses == [lastPrice : FastPrices, marketCap : FastCaps,
              hist : HistCloses, info : Infos]

FxResponses == {Raise, NoneV, Num(0), Num(-1), Num(2)}

\* dict.get(key, default)
Get(field, default) == IF field.k = "absent" THEN default ELSE field

GetCurrency(info) == IF info.currency = "absent" THEN "USD" ELSE info.currency

----------------------------------------------------------------------------
(* get_fx_rate *)

\* the body of get_fx_rate: the rate, and how it was obtained
FxCompute(from_currency, env) ==
    IF from_currency = "USD" THEN [rate |-> Num(1), src |-> "usd", asked |-> 0]
    ELSE IF env[from_currency].k = "raise"
         THEN [rate |-> Num(1), src |-> "failed", asked |-> 1]
         ELSE [rate |-> env[from_currency], src |-> "provider", asked |-> 1]

\* get_fx_rate behind st.cache_data: a cached value is returned as it is
get_fx_rate(from_currency, cache, env) ==
    IF from_currency \in DOMAIN cache
    THEN [rate |-> cache[from_currency], src |-> "cache", asked |-> 0, cache |-> cache]
    ELSE LET r == FxCompute(from_currency, env)
         IN  [rate |-> r.rate, src |-> r.src, asked |-> r.asked,
              cache |-> cache @@ (from_currency :> r.rate)]

----------------------------------------------------------------------------
(* get_safe_data: one iteration of the loop *)

\* fast_info, with the currency from info
Tier1(resp) ==
    IF resp.lastPrice.k = "raise" \/ resp.marketCap.k = "raise" \/ resp.info.raises
    THEN [ok |-> FALSE, price |-> Raise, mc |-> Raise, currency |-> "USD"]
    ELSE [ok |-> TRUE, price |-> resp.lastPrice, mc |-> resp.marketCap,
          currency |-> GetCurrency(resp.info)]

\* the latest close of history(period="1d"), market cap and currency from info
Tier2(resp) ==
    IF resp.hist.k = "raise" \/ resp.info.raises
    THEN [ok |-> FALSE, price |-> Raise, mc |-> Raise, currency |-> "USD"]
    ELSE [ok |-> TRUE, price |-> resp.hist, mc |-> Get(resp.info.marketCap, Num(0)),
          currency |-> GetCurrency(resp.info)]

\* the inner try/except: the fallback is entered when the first block raises
Fetch(resp) ==
    LET t1 == Tier1(resp)
    IN  IF t1.ok THEN [data |-> t1, tiers |-> <<"fast">>]
        ELSE [data |-> Tier2(resp), tiers |-> <<"fast", "history">>]

NoQuote == [Symbol |-> <<>>, Raw |-> <<>>, Price |-> 0, MC_B |-> 0, Curr |-> "USD"]

\* the body of the outer try: what it appends, or that it raised
Attempt(s, convert, resp, cache, env) ==
    LET f == Fetch(resp)
        d == f.data
        fx == IF convert THEN get_fx_rate(d.currency, cache, env)
              ELSE [rate |-> Num(1), src |-> "disabled", asked |-> 0, cache |-> cache]
        base == [tiers |-> f.tiers, currency |-> d.currency, fx |-> fx.rate,
                 fx_src |-> fx.src, asked |-> fx.asked]
    IN  IF ~d.ok
        THEN [tiers |-> f.tiers, currency |-> "USD", fx |-> Num(1), fx_src |-> "none",
              asked |-> 0, raised |-> TRUE, quote |-> NoQuote, cache |-> cache]
        ELSE IF d.price.k # "num" \/ fx.rate.k # "num" \/ d.mc.k # "num"
        THEN base @@ [raised |-> TRUE, quote |-> NoQuote, cache |-> fx.cache]
        ELSE base @@ [raised |-> FALSE, cache |-> fx.cache,
                      quote |-> [Symbol |-> Normalize(s),
                                 Raw |-> s,
                                 Price |-> d.price.v * fx.rate.v,
                                 MC_B |-> d.mc.v * fx.rate.v,
                                 Curr |-> IF convert THEN "USD" ELSE d.currency]]

\* except: break
AfterIterationBreak(a, idx, n) == IF a.raised THEN n + 1 ELSE idx + 1

\* except: continue
AfterIteration(a, idx, n) == idx + 1

\* get_safe_data on the one-element list [s]
Single(s, convert, resp, cache, env) ==
    LET a == Attempt(s, convert, resp, cache, env)
    IN  IF a.raised THEN <<>> ELSE <<a.quote>>

NoLast == [resp |-> [lastPrice |-> Raise, marketCap |-> NoneV, hist |-> Raise,
                     info |-> InfoRaises],
           tiers |-> <<>>, currency |-> "USD", fx |-> Num(1), fx_src |-> "none",
           raised |-> FALSE, quoted |-> FALSE, quote |-> NoQuote]

NoEvent == [type |-> "none", sym |-> <<>>, val |-> 0]

\* the hash of the arguments leaves the flag out
CacheKeyListOnly(list, flag) == <<list, TRUE>>

\* st.cache_data hashes every argument of the call
CacheKey(list, flag) == <<list, flag>>

\* one pass of "for s in symbol_list"
ResolveStep(R) ==
    /\ pc = "resolve"
    /\ i <= Len(symbol_list)
    /\ \E resp \in R :
         LET s == symbol_list[i]
             a == Attempt(s, convert_to_usd, resp, fxCache, fxEnv)
         IN  /\ results' = IF a.raised THEN results ELSE Append(results, a.quote)
             /\ fxCache' = a.cache
             /\ i' = AfterIteration(a, i, Len(symbol_list))
             /\ requests' = requests + 1 + a.asked
             /\ last' = [resp |-> resp, tiers |-> a.tiers, currency |-> a.currency,
                         fx |-> a.fx, fx_src |-> a.fx_src, raised |-> a.raised,
                         quoted |-> ~a.raised, quote |-> a.quote]
             /\ own' = Append(own, Single(s, convert_to_usd, resp, call_cache, fxEnv))
    /\ UNCHANGED <<symbols, targets, weights, usd_toggle, event, pc, dataCache,
                   symbol_list, convert_to_usd, fxEnv, call_cache, df_raw,
                   df_metrics, df_final, raw, norm1, norm2>>

\* return pd.DataFrame(results), which st.cache_data stores under the arguments
Return ==
    /\ pc = "resolve"
    /\ i > Len(symbol_list)
    /\ dataCache' = [key \in DOMAIN dataCache \cup {CacheKey(symbol_list, convert_to_usd)} |->
                        IF key = CacheKey(symbol_list, convert_to_usd) THEN results
                        ELSE dataCache[key]]
    /\ df_raw' = results
    /\ pc' = "sidebar"
    /\ symbol_list' = <<>>
    /\ i' = 1
    /\ results' = <<>>
    /\ own' = <<>>
    /\ last' = NoLast
    /\ call_cache' = EmptyMap
    /\ convert_to_usd' = TRUE
    /\ fxEnv' = [c \in FxCurrencies |-> Raise]
    /\ UNCHANGED <<symbols, targets, weights, usd_toggle, event, fxCache,
                   requests, df_metrics, df_final, raw,
                   norm1, norm2>>

----------------------------------------------------------------------------
(* The resolver alone: any list, any flag, any provider *)

\* the lists without repetition (the Add handler refuses a tracked ticker)
Lists(S) ==
    {q \in UNION {[1..n -> S] : n \in 0..Cardinality(S)} :
        \A a, b \in 1..Len(q) : a # b => q[a] # q[b]}

FxCaches == {EmptyMap} \cup {("JPY" :> r) : r \in {Num(1), Num(2)}}

InitResolve ==
    /\ symbol_list \in Lists(Tickers)
    /\ symbols = symbol_list
    /\ convert_to_usd \in BOOLEAN
    /\ usd_toggle = convert_to_usd
    /\ fxCache \in FxCaches
    /\ call_cache = fxCache
    /\ fxEnv \in [FxCurrencies -> FxResponses]
    /\ pc = "resolve"
    /\ i = 1
    /\ results = <<>>
    /\ own = <<>>
    /\ last = NoLast
    /\ requests = 0
    /\ event = NoEvent
    /\ targets = EmptyMap
    /\ weights = EmptyMap
    /\ dataCache = EmptyMap
    /\ df_raw = <<>>
    /\ df_metrics = <<>>
    /\ df_final = <<>>
    /\ raw = <<>>
    /\ norm1 = <<>>
    /\ norm2 = <<>>

ResolveAny == ResolveStep(Responses)

NextResolve == ResolveAny \/ Return

SpecResolve == InitResolve /\ [][NextResolve]_vars

----------------------------------------------------------------------------
(* The projection: calc_metrics and the ranking *)

RootScale == 10

RECURSIVE Pow(_, _)
Pow(b, e) == IF e = 0 THEN 1 ELSE b * Pow(b, e - 1)

\* (t / mc) ** (1/5) for t >= 0 and mc > 0, in units of 1/RootScale, rounded down
FifthRoot(t, mc) ==
    LET top == RootScale * ((t \div mc) + 1)
    IN  CHOOSE r \in 0..top :
            /\ Pow(r, 5) * mc <= t * Pow(RootScale, 5)
            /\ Pow(r + 1, 5) * mc > t * Pow(RootScale, 5)

\* x ** (1/5) of a negative float is not a real number
PowFifth(t, mc) == IF t < 0 THEN NaN ELSE Num(FifthRoot(t, mc))

\* dict.get(key, default)
MapGet(map, key, default) == IF key \in DOMAIN map THEN map[key] ELSE default

\* calc_metrics(row)
calc_metrics(row, tg, wt) ==
    LET t_mc == MapGet(tg, row.Symbol, row.MC_B * 5)
        weight == MapGet(wt, row.Symbol, 0)
        root == PowFifth(t_mc, row.MC_B)
        cagr == IF row.MC_B > 0
                THEN IF root.k = "num"
                     THEN Num(((root.v - RootScale) * 100) \div RootScale)
                     ELSE NaN
                ELSE Num(0)
        t_price == IF row.MC_B > 0 THEN (row.Price * t_mc) \div row.MC_B ELSE 0
    IN  [Symbol |-> row.Symbol, Price |-> row.Price, MC_B |-> row.MC_B,
         Target_MC |-> t_mc, Target_Price |-> t_price, CAGR |-> cagr,
         Weight |-> weight,
         W_CAGR |-> IF cagr.k = "num" THEN Num((cagr.v * weight) \div 100) ELSE NaN]

\* df_raw.apply(calc_metrics, axis=1)
ApplyMetrics(rows, tg, wt) == [p \in 1..Len(rows) |-> calc_metrics(rows[p], tg, wt)]

Orders(n) == {f \in [1..n -> 1..n] : \A a, b \in 1..n : a # b => f[a] # f[b]}

\* sort_values('CAGR (%)', ascending=False) with the default kind='quicksort':
\* descending, NaN last in their original order, equal keys in no promised order
SortOrders(rows) ==
    {f \in Orders(Len(rows)) :
        \A a, b \in 1..Len(rows) : a < b =>
            LET x == rows[f[a]].CAGR
                y == rows[f[b]].CAGR
            IN  /\ x.k = "NaN" => y.k = "NaN" /\ f[a] < f[b]
                /\ x.k = "num" /\ y.k = "num" => x.v >= y.v}

SortValues(rows) == {[p \in 1..Len(rows) |-> rows[f[p]]] : f \in SortOrders(rows)}

----------------------------------------------------------------------------
(* The script and the widgets *)

TargetInputs == {-8, 8}
WeightInputs == {30}

\* what the user may type into "Add"
Entries == {<<>>, <<"3", "3", "5", "0", ".", "t">>}

\* what the provider answers while the dashboard runs
FastGood == [lastPrice |-> Num(2), marketCap |-> Num(4), hist |-> Raise,
             info |-> InfoEmpty]
HistGood == [lastPrice |-> Raise, marketCap |-> NoneV, hist |-> Num(3),
             info |-> InfoFull]
AllFail == [lastPrice |-> Raise, marketCap |-> NoneV, hist |-> Raise,
            info |-> InfoRaises]
AppResponses == {FastGood, HistGood, AllFail}
AppFxResponses == {Raise, Num(2)}

Shown(rows) == {rows[p].Symbol : p \in 1..Len(rows)}

FreshSession ==
    /\ symbols = <<T3350>>
    /\ targets = EmptyMap
    /\ weights = EmptyMap
    /\ usd_toggle = TRUE
    /\ event = NoEvent
    /\ dataCache = EmptyMap
    /\ fxCache = EmptyMap

FreshFrame ==
    /\ symbol_list = <<>>
    /\ convert_to_usd = TRUE
    /\ i = 1
    /\ results = <<>>
    /\ fxEnv = [c \in FxCurrencies |-> Raise]
    /\ call_cache = EmptyMap
    /\ last = NoLast
    /\ own = <<>>
    /\ requests = 0

FreshScript ==
    /\ df_raw = <<>>
    /\ df_metrics = <<>>
    /\ df_final = <<>>

FreshNormalizer ==
    /\ raw = <<>>
    /\ norm1 = <<>>
    /\ norm2 = <<>>

\* the session as the first script run finds it
Init ==
    /\ pc = "run"
    /\ FreshSession
    /\ FreshFrame
    /\ FreshScript
    /\ FreshNormalizer

\* a widget interaction starts a script run
Interact(ev, toggle) ==
    /\ pc = "idle"
    /\ event' = ev
    /\ usd_toggle' = toggle
    /\ requests' = 0
    /\ pc' = "run"
    /\ UNCHANGED <<symbols, targets, weights, dataCache, fxCache, symbol_list,
                   convert_to_usd, i, results, fxEnv, call_cache, last, own, df_raw, df_metrics, df_final, raw, norm1, norm2>>

Toggle == Interact(NoEvent, ~usd_toggle)

EditTarget ==
    \E sym \in Shown(df_raw), v \in TargetInputs :
        Interact([type |-> "target", sym |-> sym, val |-> v], usd_toggle)

EditWeight ==
    \E sym \in Shown(df_raw), v \in WeightInputs :
        Interact([type |-> "weight", sym |-> sym, val |-> v], usd_toggle)

ClickAdd ==
    \E entry \in Entries :
        Interact([type |-> "add", sym |-> Upper(entry), val |-> 0], usd_toggle)

ClickRemove ==
    \E p \in 1..Len(symbols) :
        Interact([type |-> "remove", sym |-> symbols[p], val |-> 0], usd_toggle)

\* the time-to-live of an entry of get_safe_data's cache runs out
ExpireData ==
    /\ pc = "idle"
    /\ \E key \in DOMAIN dataCache :
          dataCache' = [x \in DOMAIN dataCache \ {key} |-> dataCache[x]]
    /\ UNCHANGED <<symbols, targets, weights, usd_toggle, event, pc, fxCache,
                   symbol_list, convert_to_usd, i, results, fxEnv, call_cache, last,
                   own, requests, df_raw, df_metrics, df_final, raw, norm1,
                   norm2>>

\* the time-to-live of an entry of get_fx_rate's cache runs out
ExpireFx ==
    /\ pc = "idle"
    /\ \E c \in DOMAIN fxCache :
          fxCache' = [x \in DOMAIN fxCache \ {c} |-> fxCache[x]]
    /\ UNCHANGED <<symbols, targets, weights, usd_toggle, event, pc, dataCache,
                   symbol_list, convert_to_usd, i, results, fxEnv, call_cache, last,
                   own, requests, df_raw, df_metrics, df_final, raw, norm1,
                   norm2>>

\* df_raw = get_safe_data(symbols, usd_toggle), answered by st.cache_data
CacheHit ==
    /\ pc = "run"
    /\ CacheKey(symbols, usd_toggle) \in DOMAIN dataCache
    /\ df_raw' = dataCache[CacheKey(symbols, usd_toggle)]
    /\ pc' = "sidebar"
    /\ UNCHANGED <<symbols, targets, weights, usd_toggle, event, dataCache, fxCache,
                   symbol_list, convert_to_usd, i, results, fxEnv, call_cache, last,
                   own, requests, df_metrics, df_final, raw, norm1, norm2>>

\* df_raw = get_safe_data(symbols, usd_toggle), the function body entered
CacheMiss ==
    /\ pc = "run"
    /\ CacheKey(symbols, usd_toggle) \notin DOMAIN dataCache
    /\ symbol_list' = symbols
    /\ convert_to_usd' = usd_toggle
    /\ i' = 1
    /\ results' = <<>>
    /\ own' = <<>>
    /\ last' = NoLast
    /\ call_cache' = fxCache
    /\ fxEnv' \in [FxCurrencies -> AppFxResponses]
    /\ pc' = "resolve"
    /\ UNCHANGED <<symbols, targets, weights, usd_toggle, event, dataCache, fxCache,
                   requests, df_raw, df_metrics, df_final, raw, norm1, norm2>>

ResolveApp == ResolveStep(AppResponses)

\* the sidebar loop over df_raw: defaults for new items, then the number inputs
RECURSIVE SidebarTargets(_, _, _)
SidebarTargets(rows, tg, ev) ==
    IF rows = <<>> THEN tg
    ELSE LET sym == Head(rows).Symbol
             dflt == IF sym \in DOMAIN tg THEN tg ELSE tg @@ (sym :> Head(rows).MC_B * 5)
             shown == IF ev.type = "target" /\ ev.sym = sym THEN ev.val ELSE dflt[sym]
         IN  SidebarTargets(Tail(rows), [dflt EXCEPT ![sym] = shown], ev)

RECURSIVE SidebarWeights(_, _, _)
SidebarWeights(rows, wt, ev) ==
    IF rows = <<>> THEN wt
    ELSE LET sym == Head(rows).Symbol
             dflt == IF sym \in DOMAIN wt THEN wt ELSE wt @@ (sym :> 0)
             shown == IF ev.type = "weight" /\ ev.sym = sym THEN ev.val ELSE dflt[sym]
         IN  SidebarWeights(Tail(rows), [dflt EXCEPT ![sym] = shown], ev)

Sidebar ==
    /\ pc = "sidebar"
    /\ targets' = SidebarTargets(df_raw, targets, event)
    /\ weights' = SidebarWeights(df_raw, weights, event)
    /\ pc' = "handlers"
    /\ UNCHANGED <<symbols, usd_toggle, event, dataCache, fxCache, symbol_list,
                   convert_to_usd, i, results, fxEnv, call_cache, last, own,
                   requests, df_raw, df_metrics, df_final, raw, norm1, norm2>>

Adds(ev, syms) ==
    /\ ev.type = "add"
    /\ ev.sym # <<>>
    /\ \A p \in 1..Len(syms) : syms[p] # ev.sym

\* "Add Ticker": append, st.cache_data.clear(), st.rerun()
AddTicker ==
    /\ pc = "handlers"
    /\ Adds(event, symbols)
    /\ symbols' = Append(symbols, event.sym)
    /\ dataCache' = EmptyMap
    /\ fxCache' = EmptyMap
    /\ event' = NoEvent
    /\ pc' = "run"
    /\ df_raw' = <<>>
    /\ UNCHANGED <<targets, weights, usd_toggle, symbol_list, convert_to_usd, i,
                   results, fxEnv, call_cache, last, own, requests,
                   df_metrics, df_final, raw, norm1, norm2>>

\* list.remove(x): the first occurrence goes
RECURSIVE ListRemove(_, _)
ListRemove(list, x) ==
    IF list = <<>> THEN <<>>
    ELSE IF Head(list) = x THEN Tail(list)
    ELSE <<Head(list)>> \o ListRemove(Tail(list), x)

\* "Remove <sym>": symbols.remove(sym), st.rerun()
RemoveAsset ==
    /\ pc = "handlers"
    /\ event.type = "remove"
    /\ symbols' = ListRemove(symbols, event.sym)
    /\ event' = NoEvent
    /\ pc' = "run"
    /\ df_raw' = <<>>
    /\ UNCHANGED <<targets, weights, usd_toggle, dataCache, fxCache, symbol_list,
                   convert_to_usd, i, results, fxEnv, call_cache, last, own,
                   requests, df_metrics, df_final, raw, norm1, norm2>>

\* section 5: the metrics and the ranking, or the "Add a ticker" hint
Display ==
    /\ pc = "handlers"
    /\ ~Adds(event, symbols)
    /\ event.type # "remove"
    /\ df_metrics' = ApplyMetrics(df_raw, targets, weights)
    /\ df_final' \in SortValues(df_metrics')
    /\ event' = NoEvent
    /\ pc' = "idle"
    /\ UNCHANGED <<symbols, targets, weights, usd_toggle, dataCache, fxCache,
                   symbol_list, convert_to_usd, i, results, fxEnv, call_cache, last,
                   own, requests, df_raw, raw, norm1, norm2>>

Next ==
    \/ Toggle \/ EditTarget \/ EditWeight \/ ClickAdd \/ ClickRemove
    \/ ExpireData \/ ExpireFx
    \/ CacheHit \/ CacheMiss \/ ResolveApp \/ Return
    \/ Sidebar \/ AddTicker \/ RemoveAsset \/ Display

Spec == Init /\ [][Next]_vars

----------------------------------------------------------------------------
(* The projection alone: any rows, any stored targets and weights *)

AAPL == <<"A", "A", "P", "L">>
ProjTickers == {AAPL, BTC_USD, T3350}
ProjCaps == {0, 4}
ProjTargets == {-8, 8, 20}
ProjWeights == {0, 30}

RowOf(s, mc) == [Symbol |-> Normalize(s), Raw |-> s, Price |-> 2, MC_B |-> mc,
                 Curr |-> "USD"]

InitProjection ==
    /\ pc = "handlers"
    /\ \E list \in Lists(ProjTickers) :
          /\ \E caps \in [1..Len(list) -> ProjCaps] :
                df_raw = [p \in 1..Len(list) |-> RowOf(list[p], caps[p])]
          /\ targets \in [{Normalize(list[p]) : p \in 1..Len(list)} -> ProjTargets]
          /\ weights \in [{Normalize(list[p]) : p \in 1..Len(list)} -> ProjWeights]
          /\ symbols = list
    /\ usd_toggle = TRUE
    /\ event = NoEvent
    /\ dataCache = EmptyMap
    /\ fxCache = EmptyMap
    /\ FreshFrame
    /\ df_metrics = <<>>
    /\ df_final = <<>>
    /\ FreshNormalizer

NextProjection == Display

SpecProjection == InitProjection /\ [][NextProjection]_vars

----------------------------------------------------------------------------
(* The normalizer alone: any short string over the characters that matter *)

MaxLen == 4
NormChars == {".", "T", "-", "A"}
Strings == UNION {[1..n -> NormChars] : n \in 0..MaxLen}

InitNormalizer ==
    /\ pc = "norm"
    /\ raw \in Strings
    /\ norm1 = <<>>
    /\ norm2 = <<>>
    /\ FreshSession
    /\ FreshFrame
    /\ FreshScript

\* the 'Symbol' of a row whose 'Raw' is raw
NormalizeRaw ==
    /\ pc = "norm"
    /\ norm1' = Normalize(raw)
    /\ pc' = "renorm"
    /\ UNCHANGED <<symbols, targets, weights, usd_toggle, event, dataCache, fxCache,
                   symbol_list, convert_to_usd, i, results, fxEnv, call_cache, last,
                   own, requests, df_raw, df_metrics, df_final, raw, norm2>>

\* the 'Symbol' of a row whose 'Raw' is that display symbol
NormalizeAgain ==
    /\ pc = "renorm"
    /\ norm2' = Normalize(norm1)
    /\ pc' = "normed"
    /\ UNCHANGED <<symbols, targets, weights, usd_toggle, event, dataCache, fxCache,
                   symbol_list, convert_to_usd, i, results, fxEnv, call_cache, last,
                   own, requests, df_raw, df_metrics, df_final, raw, norm1>>

NextNormalizer == NormalizeRaw \/ NormalizeAgain

SpecNormalizer == InitNormalizer /\ [][NextNormalizer]_vars

----------------------------------------------------------------------------
(* The claims *)

RECURSIVE Concat(_)
Concat(ss) == IF ss = <<>> THEN <<>> ELSE Head(ss) \o Concat(Tail(ss))

Valid(p) == p.k = "num" /\ p.v > 0

\* the static metadata tier: the previous close of info
Tier3Price(resp) == IF resp.info.raises THEN Raise ELSE resp.info.previousClose

Iterated == pc = "resolve" /\ last.tiers # <<>>

InTiers(name) == \E p \in 1..Len(last.tiers) : last.tiers[p] = name

\* C1: the tiers are tried in the order fast, history, static metadata; a tier is
\* tried exactly when every earlier one raised or gave a missing or non-positive
\* price, and the quote is the output of the first tier with a positive price
C1_TieredFallback ==
    Iterated =>
        LET p1 == Tier1(last.resp).price
            p2 == Tier2(last.resp).price
            p3 == Tier3Price(last.resp)
        IN  /\ InTiers("fast")
            /\ InTiers("history") <=> ~Valid(p1)
            /\ InTiers("metadata") <=> (~Valid(p1) /\ ~Valid(p2))
            /\ last.quoted => \/ Valid(p1) /\ last.tiers = <<"fast">>
                              \/ ~Valid(p1) /\ Valid(p2) /\ last.tiers = <<"fast", "history">>
                              \/ ~Valid(p1) /\ ~Valid(p2) /\ Valid(p3)
            /\ (~Valid(p1) /\ ~Valid(p2) /\ Valid(p3)) => last.quoted

\* C2: every quote get_safe_data returns has a strictly positive price
C2_PositivePrice == \A p \in 1..Len(results) : results[p].Price > 0

\* C3: failures are per symbol: the loop visits every symbol, and what it has
\* built is, in input order, exactly what each symbol gives when resolved alone
C3_PerSymbolFailure ==
    pc = "resolve" =>
        /\ Len(own) = i - 1
        /\ i <= Len(symbol_list) + 1
        /\ results = Concat(own)
        /\ \A p \in 1..Len(own) :
              \/ own[p] = <<>>
              \/ Len(own[p]) = 1 /\ own[p][1].Raw = symbol_list[p]

\* C3 witness: the first of two symbols failed after its FX lookup had filled the
\* cache, and the second was still resolved, from the cached rate
C3_Witness ==
    /\ pc = "resolve"
    /\ Len(symbol_list) = 2
    /\ i = 3
    /\ call_cache = EmptyMap
    /\ own[1] = <<>>
    /\ Len(own[2]) = 1
    /\ last.fx_src = "cache"
    /\ Len(results) = 1

Tracked == {Normalize(symbols[p]) : p \in 1..Len(symbols)}

\* C4: the store holds a target and a weight only for tracked symbols
C4_OnlyTracked ==
    pc = "idle" => /\ DOMAIN targets \subseteq Tracked
                   /\ DOMAIN weights \subseteq Tracked

C6_PositiveFx ==
    Iterated =>
        /\ Valid(last.fx)
        /\ last.fx_src \in {"usd", "disabled", "failed"} => last.fx = Num(1)

\* C7: every row has a defined real CAGR, target price and weighted CAGR, and a
\* current market cap of zero or less gives CAGR 0 and target price 0
C7_DefinedProjection ==
    \A p \in 1..Len(df_metrics) :
        /\ df_metrics[p].CAGR.k = "num"
        /\ df_metrics[p].W_CAGR.k = "num"
        /\ df_metrics[p].MC_B <= 0 =>
              df_metrics[p].CAGR = Num(0) /\ df_metrics[p].Target_Price = 0

AllNumeric == \A p \in 1..Len(df_metrics) : df_metrics[p].CAGR.k = "num"

\* C8: the ranking is the stable descending sort by CAGR: a permutation of the
\* rows, never rising, rows of equal CAGR in their input order
C8_StableRanking ==
    (pc = "idle" /\ AllNumeric) =>
        \E f \in Orders(Len(df_metrics)) :
            /\ df_final = [p \in 1..Len(df_metrics) |-> df_metrics[f[p]]]
            /\ \A a, b \in 1..Len(df_metrics) : a < b =>
                  \/ df_metrics[f[a]].CAGR.v > df_metrics[f[b]].CAGR.v
                  \/ /\ df_metrics[f[a]].CAGR.v = df_metrics[f[b]].CAGR.v
                     /\ f[a] < f[b]

\* C9 as stated: normalizing a display symbol again changes nothing, for every string
C9_IdempotentAll == pc = "normed" => norm2 = norm1

HasDotDotT(s) ==
    \E p \in 1..(Len(s) - 2) : s[p] = "." /\ s[p + 1] = "." /\ s[p + 2] = "T"

\* C9 amended: normalizing a display symbol again changes nothing, for every
\* string in which no '.' is directly followed by '.T'
C9_Idempotent == (pc = "normed" /\ ~HasDotDotT(raw)) => norm2 = norm1

\* C9 witness: a string with several '.' and '-', with a suffix removed and a
\* truncation made, whose display symbol is not empty
C9_Witness ==
    /\ pc = "normed"
    /\ ~HasDotDotT(raw)
    /\ Cardinality({p \in 1..Len(raw) : raw[p] \in {".", "-"}}) >= 2
    /\ Len(ReplaceDotT(raw)) < Len(raw)
    /\ Len(norm1) < Len(ReplaceDotT(raw))
    /\ norm1 # <<>>
    /\ norm2 = norm1

\* C10: a quote is labelled USD only if the provider's currency was USD or its
\* values were multiplied by an FX rate that was actually resolved
C10_HonestLabel ==
    (Iterated /\ last.quoted /\ last.quote.Curr = "USD") =>
        \/ last.currency = "USD"
        \/ last.fx_src \in {"provider", "cache"}

====
